---- MODULE Spec2Model ----
(***************************************************************************)
(* Transactional checkout and balance ledger of simple-ecommerce-api       *)
(* (cmd/api/storage.go, final iteration, lines 475-1474).                  *)
(*                                                                         *)
(* The database is PostgreSQL.  A transaction opened with                  *)
(* sql.LevelSerializable reads from the snapshot taken by its first        *)
(* statement, keeps its writes private until COMMIT, takes a row lock on   *)
(* every row it updates or deletes, waits for a row locked by another open *)
(* transaction and fails with a serialization failure when the row was     *)
(* changed by a transaction that committed after the snapshot.  A          *)
(* statement run on s.db outside a transaction reads the latest committed  *)
(* state.  Every in-flight operation may fail at any statement (timeout of *)
(* its context, lost connection, abort by the database), which is the      *)
(* action Fail.  Money is counted in cents.                                *)
(***************************************************************************)
EXTENDS Integers, Sequences, FiniteSets, Bags, TLC

\* ------------------------------------------------------------------ bounds
MaxCartQty == 2     \* largest quantity of a cart line in an initial state
MaxStock   == 2     \* largest product quantity in an initial state
MaxOrderID == 3     \* values the orders id sequence may hand out

\* ------------------------------------------------------- the fixed scenario
Users    == {1, 2}
Products == {1, 2}
Sessions == {1, 2}

Price0         == <<3, 2>>     \* price of product 1, 2 (cents)
Balance0       == <<6, 4>>     \* balance of user 1, 2 in the initial state
SessionUser    == <<1, 2, 1>>  \* metadata user_id of payment session 1, 2, 3
SessionAmount  == <<5, 3, 2>>  \* amount paid in payment session 1, 2, 3

CheckoutProcs == {"c1", "c2"}     \* requests POST /v1/cart-items/checkout
WebhookProcs  == {"w1", "w2"}     \* deliveries POST /v1/balances-webhook
CancelProcs   == {"k1", "k2"}     \* requests PUT /v1/orders/{id} (cancel)
CartProcs     == {"a1"}           \* requests POST /v1/cart-items
DeliverProcs  == {"d1", "d2"}         \* requests PUT /v1/orders/{id} (deliver)
UserProcs     == {"u1"}           \* requests PUT /v1/users/{id}
ProductProcs  == {"e1"}           \* requests PUT /v1/products/{id}
CartEditProcs == {"b1", "b2"}     \* requests PUT /v1/cart-items/{id}
Procs         == CheckoutProcs \cup WebhookProcs \cup CancelProcs \cup CartProcs
                    \cup DeliverProcs \cup UserProcs \cup ProductProcs
                    \cup CartEditProcs

\* OrderStatusID, data.go
OrderStatusInProgress == 1
OrderStatusDelivered  == 2
OrderStatusCancelled  == 3

Nil == [nil |-> TRUE]

VARIABLES
    users,          \* table users:      id -> [balance, version]
    products,       \* table products:   id -> [price, quantity, version]
    cart_items,     \* table cart_items: user_id -> product_id -> [id, quantity, version]
    orders,         \* table orders:     id -> [user_id, status_id, version]
    order_items,    \* table order_items: order_id -> sequence of [product_id, quantity, price]
    transations,    \* table transations: bag of [user_id, signature, amount]
    orders_id_seq,  \* bigserial of orders.id: the last value handed out
    pc,             \* position of each request in its handler
    local,          \* the local variables of each request (see Local0)
    view,           \* open transaction: the tables as the transaction sees them
    wrote,          \* open transaction: rows it has written (and locked)
    ins,            \* open transaction: transations rows it has inserted
    err             \* the error an operation returned ("ok": nil)

dbvars == <<users, products, cart_items, orders, order_items, transations>>
vars   == <<users, products, cart_items, orders, order_items, transations,
            orders_id_seq, pc, local, view, wrote, ins, err>>

\* the local variables of a request, before it has read anything
Local0 == [u       |-> Nil,     \* the *User the request holds
           sess    |-> 0,       \* webhook: id of the payment session of the event
           order   |-> Nil,     \* CancelOrder: the *Order the handler read
           items   |-> <<>>,    \* CheckoutCart: items
           idx     |-> 0,       \* CheckoutCart: position of the loop over items
           total   |-> 0,       \* CheckoutCart, CancelOrder: total
           orderID |-> 0,       \* CheckoutCart: orderID
           req     |-> Nil,     \* createCartItemHandler: req
           event   |-> Nil,     \* webhook: the notification
           before  |-> Nil,     \* history: the stored user row when CheckoutCart commits
           after   |-> Nil]     \* history: the stored user row CheckoutCart's commit leaves

\* ---------------------------------------------------------------- helpers
RECURSIVE SumSeq(_)
SumSeq(s) == IF s = <<>> THEN 0 ELSE Head(s) + SumSeq(Tail(s))

\* all orderings of a finite set as sequences without repetition
Perms(S) == {s \in [1..Cardinality(S) -> S] :
                \A i, j \in 1..Cardinality(S) : i # j => s[i] # s[j]}

\* the tables a transaction reads through its snapshot
Tables == [users |-> users, products |-> products, cart_items |-> cart_items,
           orders |-> orders, order_items |-> order_items]

\* a row of the tables t; k is <<table, key...>>
Row(t, k) ==
    CASE k[1] = "users"      -> t.users[k[2]]
      [] k[1] = "products"   -> t.products[k[2]]
      [] k[1] = "cart_items" -> t.cart_items[k[2]][k[3]]
      [] k[1] = "orders"     -> IF k[2] \in DOMAIN t.orders THEN t.orders[k[2]] ELSE Nil
      [] k[1] = "order_items" -> IF k[2] \in DOMAIN t.order_items THEN t.order_items[k[2]] ELSE Nil

\* the tables t with row k set to r
SetRow(t, k, r) ==
    CASE k[1] = "users"      -> [t EXCEPT !.users[k[2]] = r]
      [] k[1] = "products"   -> [t EXCEPT !.products[k[2]] = r]
      [] k[1] = "cart_items" -> [t EXCEPT !.cart_items[k[2]][k[3]] = r]
      [] k[1] = "orders"     -> [t EXCEPT !.orders = (k[2] :> r) @@ t.orders]
      [] k[1] = "order_items" -> [t EXCEPT !.order_items = (k[2] :> r) @@ t.order_items]

\* a key of cart_items whose row r was deleted: no quantity, no version;
\* id stays, so that a row created again for the key gets a new id (the
\* table's bigserial never gives an id twice)
NoCartItem(r) == [id |-> r.id, quantity |-> 0, version |-> 0]

\* ------------------------------------------------- transactions (database)
\* sql.TxOptions{Isolation: sql.LevelSerializable} of CheckoutCart
CheckoutIsolationDefault == "read_committed"
CheckoutIsolation == "serializable"

\* sql.TxOptions{Isolation: sql.LevelSerializable} of TransferToUser
TransferIsolation == "serializable"

\* sql.TxOptions{Isolation: sql.LevelSerializable} of CancelOrder
CancelIsolation == "serializable"

Isolation(p) ==
    IF p \in CheckoutProcs THEN CheckoutIsolation
    ELSE IF p \in WebhookProcs THEN TransferIsolation ELSE CancelIsolation

\* row k is locked by an open transaction other than p's
LockedByOther(p, k) == \E q \in Procs \ {p} : k \in wrote[q]

\* row k was changed by a transaction that committed after p's snapshot
\* (the variant: an isolation level that does not look for such a change)
ChangedSinceSnapshotNever(p, k) == FALSE
ChangedSinceSnapshot(p, k) == k \notin wrote[p] /\ Row(Tables, k) # Row(view[p], k)

\* the row k as a statement of p's transaction sees it
Visible(p, k) ==
    IF k \in wrote[p] \/ Isolation(p) = "serializable"
    THEN Row(view[p], k) ELSE Row(Tables, k)

\* what happens to an UPDATE or DELETE of p's transaction whose WHERE clause
\* matches exactly the rows K
Outcome(p, K) ==
    IF Isolation(p) = "serializable" /\ \E k \in K : ChangedSinceSnapshot(p, k)
    THEN "serialization_failure"
    ELSE IF \E k \in K : LockedByOther(p, k) THEN "wait" ELSE "ok"

\* p's transaction writes row k: tx.ExecContext, tx.QueryRowContext (the
\* variant: the statement runs on s.db and is committed at once)
WriteOnDB(p, k, r) ==
    /\ view'  = [view EXCEPT ![p] = SetRow(view[p], k, r)]
    /\ wrote' = [wrote EXCEPT ![p] = wrote[p] \cup {k}]
    /\ users'       = SetRow(Tables, k, r).users
    /\ products'    = SetRow(Tables, k, r).products
    /\ cart_items'  = SetRow(Tables, k, r).cart_items
    /\ orders'      = SetRow(Tables, k, r).orders
    /\ order_items' = SetRow(Tables, k, r).order_items
    /\ UNCHANGED transations
Write(p, k, r) ==
    /\ view'  = [view EXCEPT ![p] = SetRow(view[p], k, r)]
    /\ wrote' = [wrote EXCEPT ![p] = wrote[p] \cup {k}]
    /\ UNCHANGED dbvars

\* tx.Rollback(): the private writes and the locks are dropped
Rollback(p) ==
    /\ view'  = [view EXCEPT ![p] = Nil]
    /\ wrote' = [wrote EXCEPT ![p] = {}]
    /\ ins'   = [ins EXCEPT ![p] = EmptyBag]

\* the tables after p's transaction commits (the variant: the whole
\* snapshot is written back, not only the rows the transaction wrote)
CommittedWholeView(p) ==
    [users |-> view[p].users, products |-> view[p].products,
     cart_items |-> view[p].cart_items, orders |-> view[p].orders,
     order_items |-> view[p].order_items]
Committed(p) ==
    LET W == wrote[p]
        V == view[p]
        newIDs(tbl) == {k[2] : k \in {w \in W : w[1] = tbl}}
    IN [users |-> [x \in Users |-> IF <<"users", x>> \in W THEN V.users[x] ELSE users[x]],
        products |-> [x \in Products |->
                        IF <<"products", x>> \in W THEN V.products[x] ELSE products[x]],
        cart_items |-> [x \in Users |-> [y \in Products |->
                        IF <<"cart_items", x, y>> \in W THEN V.cart_items[x][y]
                        ELSE cart_items[x][y]]],
        orders |-> [i \in DOMAIN orders \cup newIDs("orders") |->
                        IF <<"orders", i>> \in W THEN V.orders[i] ELSE orders[i]],
        order_items |-> [i \in DOMAIN order_items \cup newIDs("order_items") |->
                        IF <<"order_items", i>> \in W THEN V.order_items[i]
                        ELSE order_items[i]]]

\* tx.Commit(): the private writes become the committed state (the
\* variant: the rows the transaction inserted replace the ledger)
CommitReplaceLedger(p) ==
    /\ users'       = Committed(p).users
    /\ products'    = Committed(p).products
    /\ cart_items'  = Committed(p).cart_items
    /\ orders'      = Committed(p).orders
    /\ order_items' = Committed(p).order_items
    /\ transations' = ins[p]
    /\ Rollback(p)
Commit(p) ==
    /\ users'       = Committed(p).users
    /\ products'    = Committed(p).products
    /\ cart_items'  = Committed(p).cart_items
    /\ orders'      = Committed(p).orders
    /\ order_items' = Committed(p).order_items
    /\ transations' = transations (+) ins[p]
    /\ Rollback(p)

\* transations.signature is UNIQUE: a committed row with the signature makes
\* the INSERT fail
SignatureTakenNoConstraint(sig) == FALSE
SignatureTaken(sig) == \E t \in BagToSet(transations) : t.signature = sig

\* ... and an uncommitted one of another transaction makes it wait
SignaturePending(p, sig) ==
    \E q \in Procs \ {p} : \E t \in BagToSet(ins[q]) : t.signature = sig

\* the operation returns its results (in l) and a nil error
ReturnOk(p, l) ==
    /\ pc'    = [pc EXCEPT ![p] = "done"]
    /\ err'   = [err EXCEPT ![p] = "ok"]
    /\ local' = [local EXCEPT ![p] = l]

\* the operation returns the error e (and zero values)
ReturnErr(p, e) ==
    /\ pc'    = [pc EXCEPT ![p] = "done"]
    /\ err'   = [err EXCEPT ![p] = e]
    /\ local' = [local EXCEPT ![p] = Local0]

\* an error inside the transaction: tx.Rollback(); return err (the variant:
\* return err alone, with a context that nothing cancels)
AbortNoRollback(p, e) == ReturnErr(p, e) /\ UNCHANGED <<view, wrote, ins>>
Abort(p, e) == Rollback(p) /\ ReturnErr(p, e)

\* the request goes on at l with the local variables loc
Goto(p, l, loc) ==
    /\ pc'    = [pc EXCEPT ![p] = l]
    /\ local' = [local EXCEPT ![p] = loc]
    /\ UNCHANGED err

\* INSERT INTO transations(user_id, signature, amount) VALUES ($1, $2, $3)
\* in p's transaction, whose view of the tables is v; then go on at next
\* (the variant: the statement runs on s.db and is committed at once)
InsertTransationOnDB(p, t, v, next) ==
    /\ ~SignaturePending(p, t.signature)
    /\ IF SignatureTaken(t.signature)
       THEN Abort(p, "UniqueViolation") /\ UNCHANGED dbvars
       ELSE /\ transations' = transations (+) SetToBag({t})
            /\ view' = [view EXCEPT ![p] = v]
            /\ Goto(p, next, local[p])
            /\ UNCHANGED <<wrote, ins, users, products, cart_items, orders, order_items>>
InsertTransation(p, t, v, next) ==
    /\ ~SignaturePending(p, t.signature)
    /\ IF SignatureTaken(t.signature)
       THEN Abort(p, "UniqueViolation")
       ELSE /\ ins'  = [ins EXCEPT ![p] = ins[p] (+) SetToBag({t})]
            /\ view' = [view EXCEPT ![p] = v]
            /\ Goto(p, next, local[p])
            /\ UNCHANGED wrote
    /\ UNCHANGED dbvars

\* an UPDATE ... WHERE id = k AND version = ... of p's transaction that
\* matches the rows K (k or nothing) and sets the row to r; noRows is the
\* error of a statement that matched nothing ("": none, the code goes on)
Update(p, k, K, r, noRows, next, loc) ==
    /\ Outcome(p, K) # "wait"
    /\ IF K = {} /\ noRows # ""
       THEN Abort(p, noRows) /\ UNCHANGED dbvars
       ELSE IF Outcome(p, K) = "serialization_failure"
       THEN Abort(p, "SerializationFailure") /\ UNCHANGED dbvars
       ELSE /\ IF K = {} THEN UNCHANGED <<view, wrote, dbvars>> ELSE Write(p, k, r)
            /\ Goto(p, next, loc)
            /\ UNCHANGED ins

\* ------------------------------------------------------------ the requests
\* GetUserById, GetUserFromToken: the committed user row
GetUserById(id) ==
    [ID |-> id, Balance |-> users[id].balance, Version |-> users[id].version]

\* middleware authenticate: GetUserFromToken reads the user row of the
\* token's owner; checkoutHandler then calls CheckoutCart(u)
Authenticate(p, id) ==
    /\ pc[p] = "idle"
    /\ Goto(p, "checkout", [Local0 EXCEPT !.u = GetUserById(id)])
    /\ UNCHANGED <<dbvars, orders_id_seq, view, wrote, ins>>

\* ------------------------------------------------------------ CheckoutCart
\* the rows of query0, in the order lines (the join has no ORDER BY)
CartLines(t, id, lines) ==
    [i \in 1..Len(lines) |->
        [Quantity |-> t.cart_items[id][lines[i]].quantity,
         Product  |-> [ID       |-> lines[i],
                       Price    |-> t.products[lines[i]].price,
                       Quantity |-> t.products[lines[i]].quantity,
                       Version  |-> t.products[lines[i]].version]]]

\* if item.Quantity > p.Quantity
OutOfStockOffByOne(item) == item.Quantity > item.Product.Quantity + 1
OutOfStock(item) == item.Quantity > item.Product.Quantity

\* total = total.Add(item.Product.Price.Mul(decimal.NewFromInt(item.Quantity)))
\* (the variant: the prices are added without the quantities)
CartTotalUnitPrices(its) == SumSeq([i \in 1..Len(its) |-> its[i].Product.Price])
CartTotal(its) == SumSeq([i \in 1..Len(its) |-> its[i].Product.Price * its[i].Quantity])

\* if len(items) == 0 (the variant: the test is left out)
EmptyCartNever(its) == FALSE
EmptyCart(its) == Len(its) = 0

\* if total.GreaterThan(u.Balance)
InsufficientFundsNever(t, usr) == FALSE
InsufficientFunds(t, usr) == t > usr.Balance

\* BeginTx, query0 and the loop over its rows, the checks on items and total
CheckoutQuery0(p) ==
    /\ pc[p] = "checkout"
    /\ \E lines \in Perms({x \in Products : cart_items[local[p].u.ID][x].quantity > 0}) :
         LET its == CartLines(Tables, local[p].u.ID, lines)
             t   == CartTotal(its)
         IN IF \E i \in 1..Len(its) : OutOfStock(its[i])
            THEN ReturnErr(p, "OutOfStock") /\ UNCHANGED view
            ELSE IF EmptyCart(its)
            THEN ReturnErr(p, "EmptyCart") /\ UNCHANGED view
            ELSE IF InsufficientFunds(t, local[p].u)
            THEN ReturnErr(p, "InsufficientFunds") /\ UNCHANGED view
            ELSE /\ view' = [view EXCEPT ![p] = Tables]
                 /\ Goto(p, IF Len(its) = 0 THEN "query2" ELSE "query1",
                         [local[p] EXCEPT !.items = its, !.idx = 1, !.total = t])
    /\ UNCHANGED <<dbvars, orders_id_seq, wrote, ins>>

\* the rows the WHERE clauses of query1, query2 and query5 match
Query1Rows(p) ==
    LET item == local[p].items[local[p].idx]
        k    == <<"products", item.Product.ID>>
    IN IF Visible(p, k).version = item.Product.Version THEN {k} ELSE {}

Query2Rows(p) ==
    LET k == <<"users", local[p].u.ID>>
    IN IF Visible(p, k).version = local[p].u.Version THEN {k} ELSE {}

\* (the variant: only the line read first is deleted)
Query5RowsFirstLine(p) ==
    {<<"cart_items", local[p].u.ID, local[p].items[1].Product.ID>>}
Query5Rows(p) ==
    {<<"cart_items", local[p].u.ID, y>> : y \in {z \in Products :
        Visible(p, <<"cart_items", local[p].u.ID, z>>).quantity > 0}}

\* query1, once per item: UPDATE products SET quantity = quantity - $1,
\* version = version + 1 WHERE id = $2 AND version = $3  (ExecContext: the
\* number of rows affected is not looked at)
CheckoutQuery1(p) ==
    /\ pc[p] = "query1"
    /\ LET item == local[p].items[local[p].idx]
           k    == <<"products", item.Product.ID>>
           r    == Visible(p, k)
       IN Update(p, k, Query1Rows(p),
                 [r EXCEPT !.quantity = @ - item.Quantity, !.version = @ + 1], "",
                 IF local[p].idx = Len(local[p].items) THEN "query2" ELSE "query1",
                 [local[p] EXCEPT !.idx = @ + 1])
    /\ UNCHANGED orders_id_seq

\* query2: UPDATE users SET balance = balance - $1, version = version + 1
\* WHERE id = $2 AND version = $3  (ExecContext, as query1)
CheckoutQuery2(p) ==
    /\ pc[p] = "query2"
    /\ LET k == <<"users", local[p].u.ID>>
           r == Visible(p, k)
       IN Update(p, k, Query2Rows(p),
                 [r EXCEPT !.balance = @ - local[p].total, !.version = @ + 1], "",
                 "query3", local[p])
    /\ UNCHANGED orders_id_seq

\* query3: INSERT INTO orders(user_id) VALUES ($1) RETURNING id
CheckoutQuery3(p) ==
    /\ pc[p] = "query3"
    /\ orders_id_seq < MaxOrderID
    /\ orders_id_seq' = orders_id_seq + 1
    /\ Write(p, <<"orders", orders_id_seq + 1>>,
             [user_id |-> local[p].u.ID, status_id |-> OrderStatusInProgress,
              version |-> 1])
    /\ Goto(p, "query4", [local[p] EXCEPT !.orderID = orders_id_seq + 1])
    /\ UNCHANGED ins

\* query4, once per item: INSERT INTO order_items(order_id, product_id,
\* quantity, price)
CheckoutQuery4(p) ==
    /\ pc[p] = "query4"
    /\ Write(p, <<"order_items", local[p].orderID>>,
             [i \in 1..Len(local[p].items) |->
                [product_id |-> local[p].items[i].Product.ID,
                 quantity   |-> local[p].items[i].Quantity,
                 price      |-> local[p].items[i].Product.Price]])
    /\ Goto(p, "query5", local[p])
    /\ UNCHANGED <<orders_id_seq, ins>>

\* query5: DELETE FROM cart_items WHERE user_id = $1
CheckoutQuery5(p) ==
    /\ pc[p] = "query5"
    /\ LET K == Query5Rows(p)
       IN /\ Outcome(p, K) # "wait"
          /\ IF Outcome(p, K) = "serialization_failure"
             THEN Abort(p, "SerializationFailure")
             ELSE /\ view'  = [view EXCEPT ![p].cart_items[local[p].u.ID] =
                                 [y \in Products |->
                                    IF <<"cart_items", local[p].u.ID, y>> \in K
                                    THEN NoCartItem(@[y]) ELSE @[y]]]
                  /\ wrote' = [wrote EXCEPT ![p] = wrote[p] \cup K]
                  /\ Goto(p, "query6", local[p])
                  /\ UNCHANGED ins
    /\ UNCHANGED <<dbvars, orders_id_seq>>

\* fmt.Sprintf("checkout-order_id=%d", orderID) (the variant: the order id
\* is left out)
CheckoutSignatureNoID(id) == <<"checkout-order_id", 0>>
CheckoutSignature(id) == <<"checkout-order_id", id>>

\* query6: INSERT INTO transations(user_id, signature, amount)
CheckoutQuery6(p) ==
    /\ pc[p] = "query6"
    /\ InsertTransation(p, [user_id   |-> local[p].u.ID,
                            signature |-> CheckoutSignature(local[p].orderID),
                            amount    |-> 0 - local[p].total], view[p], "commit")
    /\ UNCHANGED orders_id_seq

\* tx.Commit(); return total, orderID, nil
CheckoutCommit(p) ==
    /\ pc[p] = "commit"
    /\ Commit(p)
    /\ ReturnOk(p, [local[p] EXCEPT !.before = users[local[p].u.ID],
                                    !.after  = Committed(p).users[local[p].u.ID]])
    /\ UNCHANGED orders_id_seq

\* ------------------------------------------- payment webhook, TransferToUser
\* the signature the webhook handler derives from the session id
PaymentSignature(s) == <<"payment-session-id", s>>

\* GetTransationWithSignature: the row with the signature, or nil
GetTransationWithSignatureNil(sig) == Nil
GetTransationWithSignature(sig) ==
    IF \E t \in BagToSet(transations) : t.signature = sig
    THEN CHOOSE t \in BagToSet(transations) : t.signature = sig
    ELSE Nil

\* const BalanceTransfer
BalanceTransfer == "BalanceTransfer"

\* the notifications that may arrive: with or without a valid
\* Stripe-Signature, with or without the purpose tag in the metadata
Events == [verified : BOOLEAN, tag : {BalanceTransfer, ""}]

\* webhook.ConstructEvent succeeded and
\* s.Metadata["balance_transfer"] == BalanceTransfer (the variant: the tag
\* is not looked at)
EventAcceptedAnyTag(ev) == ev.verified
EventAccepted(ev) == ev.verified /\ ev.tag = BalanceTransfer

\* the handler receives the notification ev of payment session s and
\* answers 400 unless it is authentic and tagged as a balance transfer
WebhookReceive(p, s, ev) ==
    /\ pc[p] = "idle"
    /\ IF EventAccepted(ev)
       THEN Goto(p, "webhook", [Local0 EXCEPT !.sess = s, !.event = ev])
       ELSE ReturnErr(p, "Rejected")
    /\ UNCHANGED <<dbvars, orders_id_seq, view, wrote, ins>>

\* the handler reads the user the session refers to
WebhookGetUser(p) ==
    /\ pc[p] \in {"webhook", "wh_checked"}
    /\ Goto(p, IF pc[p] = "webhook" THEN "wh_user" ELSE "transfer",
            [local[p] EXCEPT !.u = GetUserById(SessionUser[local[p].sess])])
    /\ UNCHANGED <<dbvars, orders_id_seq, view, wrote, ins>>

\* the handler looks for a transation with the signature of the session:
\* present, the event was applied before and the handler answers success
WebhookGetTransation(p) ==
    /\ pc[p] \in {"webhook", "wh_user"}
    /\ IF GetTransationWithSignature(PaymentSignature(local[p].sess)) # Nil
       THEN ReturnOk(p, local[p])
       ELSE Goto(p, IF pc[p] = "webhook" THEN "wh_checked" ELSE "transfer", local[p])
    /\ UNCHANGED <<dbvars, orders_id_seq, view, wrote, ins>>

\* TransferToUser, BeginTx and query0: INSERT INTO transations
TransferQuery0(p) ==
    /\ pc[p] = "transfer"
    /\ InsertTransation(p, [user_id   |-> local[p].u.ID,
                            signature |-> PaymentSignature(local[p].sess),
                            amount    |-> SessionAmount[local[p].sess]],
                        Tables, "transfer1")
    /\ UNCHANGED orders_id_seq

\* SET balance = balance + $1, version = version + 1 (the variant: SET
\* balance = $1)
TransferQuery1SetAssign(r, t) == [r EXCEPT !.balance = t, !.version = @ + 1]
TransferQuery1Set(r, t) == [r EXCEPT !.balance = @ + t, !.version = @ + 1]

\* query1: UPDATE users SET balance = balance + $1, version = version + 1
\* WHERE id = $2 AND version = $3 RETURNING version  (Scan: no row is
\* sql.ErrNoRows)
TransferQuery1(p) ==
    /\ pc[p] = "transfer1"
    /\ LET k == <<"users", local[p].u.ID>>
           r == Visible(p, k)
       IN Update(p, k, Query2Rows(p),
                 TransferQuery1Set(r, SessionAmount[local[p].sess]),
                 "NoRows", "transfer2", [local[p] EXCEPT !.u.Version = r.version + 1])
    /\ UNCHANGED orders_id_seq

\* tx.Commit(); return nil
TransferCommit(p) ==
    /\ pc[p] = "transfer2"
    /\ Commit(p)
    /\ ReturnOk(p, local[p])
    /\ UNCHANGED orders_id_seq

\* ------------------------------------------------------------- CancelOrder
\* (the variant: the order id is left out of the cancellation signature)
CancelSignatureNoID(id) == <<"cancel-order-id", 0>>
\* fmt.Sprintf("cancel-order-id=%d", order.ID)
CancelSignature(id) == <<"cancel-order-id", id>>

\* GetOrderByID: the committed order row
GetOrderByID(id) ==
    [ID |-> id, UserID |-> orders[id].user_id, StatusID |-> orders[id].status_id,
     Version |-> orders[id].version]

\* the handler reads the order and calls CancelOrder(order)
CancelReceive(p, id) ==
    /\ pc[p] = "idle"
    /\ id \in DOMAIN orders
    /\ Goto(p, "cancel", [Local0 EXCEPT !.order = GetOrderByID(id)])
    /\ UNCHANGED <<dbvars, orders_id_seq, view, wrote, ins>>

\* SELECT SUM(price * quantity) FROM order_items WHERE order_id = $1 (the
\* variant: the price is the one of the product now)
OrderTotalCurrentPrice(its) ==
    SumSeq([i \in 1..Len(its) |-> products[its[i].product_id].price * its[i].quantity])
OrderTotal(its) == SumSeq([i \in 1..Len(its) |-> its[i].price * its[i].quantity])

\* if total.LessThanOrEqual(decimal.Zero) (the variant: LessThan)
InvalidRefundNegative(t) == t < 0
InvalidRefund(t) == t <= 0

\* query0 on s.db (the SUM over no row is NULL, which Scan rejects)
CancelQuery0(p) ==
    /\ pc[p] = "cancel"
    /\ LET none == local[p].order.ID \notin DOMAIN order_items
           t    == IF none THEN 0 ELSE OrderTotal(order_items[local[p].order.ID])
       IN IF none
          THEN ReturnErr(p, "Scan")
          ELSE IF InvalidRefund(t)
          THEN ReturnErr(p, "InvalidRefund")
          ELSE Goto(p, "cancel1", [local[p] EXCEPT !.total = t])
    /\ UNCHANGED <<dbvars, orders_id_seq, view, wrote, ins>>

\* (the variant: WHERE id = $1 AND version = $2, whatever the status)
CancelQuery1RowsAnyStatus(p) ==
    LET k == <<"orders", local[p].order.ID>>
    IN IF orders[k[2]].version = local[p].order.Version
       THEN {k} ELSE {}

\* the rows query1 matches: WHERE status_id = 1 AND id = $1 AND version = $2
CancelQuery1Rows(p) ==
    LET k == <<"orders", local[p].order.ID>>
    IN IF /\ orders[k[2]].status_id = OrderStatusInProgress
          /\ orders[k[2]].version = local[p].order.Version
       THEN {k} ELSE {}

\* BeginTx and query1: UPDATE orders SET status_id = 3, completed_at = NOW(),
\* version = version + 1 ... RETURNING version
CancelQuery1(p) ==
    /\ pc[p] = "cancel1"
    /\ LET k == <<"orders", local[p].order.ID>>
           K == CancelQuery1Rows(p)
       IN /\ ~(\E x \in K : LockedByOther(p, x))
          /\ IF K = {}
             THEN Abort(p, "NoRows")
             ELSE /\ view'  = [view EXCEPT ![p] =
                                SetRow(Tables, k, [orders[k[2]] EXCEPT
                                    !.status_id = OrderStatusCancelled, !.version = @ + 1])]
                  /\ wrote' = [wrote EXCEPT ![p] = {k}]
                  /\ Goto(p, "cancel_user", [local[p] EXCEPT !.order.Version = @ + 1])
                  /\ UNCHANGED ins
    /\ UNCHANGED <<dbvars, orders_id_seq>>

\* u, err := s.GetUserById(order.UserID): on s.db, not on tx
CancelGetUser(p) ==
    /\ pc[p] = "cancel_user"
    /\ Goto(p, "cancel2", [local[p] EXCEPT !.u = GetUserById(local[p].order.UserID)])
    /\ UNCHANGED <<dbvars, orders_id_seq, view, wrote, ins>>

\* SET balance = balance + $1, version = version + 1 (the variant: the
\* version is left as it is)
CancelQuery2SetBalanceOnly(r, t) == [r EXCEPT !.balance = @ + t]
CancelQuery2Set(r, t) == [r EXCEPT !.balance = @ + t, !.version = @ + 1]

\* query2: UPDATE users SET balance = balance + $1, version = version + 1
\* WHERE id = $2 AND version = $3 RETURNING version
CancelQuery2(p) ==
    /\ pc[p] = "cancel2"
    /\ LET k == <<"users", local[p].u.ID>>
           r == Visible(p, k)
       IN Update(p, k, Query2Rows(p), CancelQuery2Set(r, local[p].total),
                 "NoRows", "cancel3", [local[p] EXCEPT !.u.Version = r.version + 1])
    /\ UNCHANGED orders_id_seq

\* query3: INSERT INTO transations
CancelQuery3(p) ==
    /\ pc[p] = "cancel3"
    /\ InsertTransation(p, [user_id   |-> local[p].u.ID,
                            signature |-> CancelSignature(local[p].order.ID),
                            amount    |-> local[p].total], view[p], "cancel4")
    /\ UNCHANGED orders_id_seq

\* tx.Commit(); return total, nil
CancelCommit(p) ==
    /\ pc[p] = "cancel4"
    /\ Commit(p)
    /\ ReturnOk(p, local[p])
    /\ UNCHANGED orders_id_seq

\* ------------------------------------------------- createCartItemHandler
\* the request of user id (read by authenticate) to put n of product x in
\* the cart; v.Check(req.Quantity > 0, ...)
CreateCartItemReceive(p, id, x, n) ==
    /\ pc[p] = "idle"
    /\ n > 0
    /\ Goto(p, "cart", [Local0 EXCEPT !.u = GetUserById(id),
                                       !.req = [ProductID |-> x, Quantity |-> n]])
    /\ UNCHANGED <<dbvars, orders_id_seq, view, wrote, ins>>

\* p, err := app.storage.GetProductByID(req.ProductID); the quantity is cut
\* down to the stock; nothing in stock is an error
CreateCartItemGetProduct(p) ==
    /\ pc[p] = "cart"
    /\ LET q == products[local[p].req.ProductID].quantity
           n == IF q < local[p].req.Quantity THEN q ELSE local[p].req.Quantity
       IN IF n = 0
          THEN ReturnErr(p, "OutOfStock")
          ELSE Goto(p, "cart1", [local[p] EXCEPT !.req.Quantity = n])
    /\ UNCHANGED <<dbvars, orders_id_seq, view, wrote, ins>>

\* CreateCartItem: INSERT INTO cart_items(product_id, user_id, quantity) on
\* s.db; UNIQUE(product_id, user_id) rejects a second row and waits for an
\* open transaction that is deleting the row
CreateCartItem(p) ==
    /\ pc[p] = "cart1"
    /\ LET id == local[p].u.ID
           x  == local[p].req.ProductID
       IN /\ ~LockedByOther(p, <<"cart_items", id, x>>)
          /\ IF cart_items[id][x].quantity > 0
             THEN ReturnErr(p, "UniqueViolation") /\ UNCHANGED cart_items
             ELSE /\ cart_items' = [cart_items EXCEPT ![id][x] =
                                      [id       |-> @.id + 1,
                                       quantity |-> local[p].req.Quantity,
                                       version  |-> 1]]
                  /\ ReturnOk(p, local[p])
    /\ UNCHANGED <<users, products, orders, order_items, transations,
                   orders_id_seq, view, wrote, ins>>

\* ------------------------------------------------------------ DeliverOrder
\* the handler reads the order and calls DeliverOrder(order)
DeliverReceive(p, id) ==
    /\ pc[p] = "idle"
    /\ id \in DOMAIN orders
    /\ Goto(p, "deliver", [Local0 EXCEPT !.order = GetOrderByID(id)])
    /\ UNCHANGED <<dbvars, orders_id_seq, view, wrote, ins>>

\* the rows the statement matches: WHERE status_id = 1 AND id = $1 AND
\* version = $2 (the variant: without status_id = 1)
DeliverOrderRowsAnyStatus(p) ==
    LET k == <<"orders", local[p].order.ID>>
    IN IF orders[k[2]].version = local[p].order.Version THEN {k} ELSE {}
DeliverOrderRows(p) ==
    LET k == <<"orders", local[p].order.ID>>
    IN IF /\ orders[k[2]].status_id = OrderStatusInProgress
          /\ orders[k[2]].version = local[p].order.Version
       THEN {k} ELSE {}

\* SET status_id = 2, completed_at = NOW(), version = version + 1 (the
\* variant: the version is left as it is)
DeliverOrderSetStatusOnly(r) == [r EXCEPT !.status_id = OrderStatusDelivered]
DeliverOrderSet(r) == [r EXCEPT !.status_id = OrderStatusDelivered, !.version = @ + 1]

\* UPDATE orders SET status_id = 2, completed_at = NOW(), version =
\* version + 1 ... RETURNING version, one statement on s.db: it waits for an
\* open transaction that holds the row; no row is sql.ErrNoRows
DeliverOrder(p) ==
    /\ pc[p] = "deliver"
    /\ LET id == local[p].order.ID
           K  == DeliverOrderRows(p)
       IN /\ ~(\E k \in K : LockedByOther(p, k))
          /\ IF K = {}
             THEN ReturnErr(p, "NoRows") /\ UNCHANGED orders
             ELSE /\ orders' = [orders EXCEPT ![id] = DeliverOrderSet(@)]
                  /\ ReturnOk(p, [local[p] EXCEPT !.order.Version = @ + 1])
    /\ UNCHANGED <<users, products, cart_items, order_items, transations,
                   orders_id_seq, view, wrote, ins>>

\* -------------------------------------------------------------- UpdateUser
\* updateUserHandler: u := getUserFromRequest(r), the user row the middleware
\* read; the request edits the name, the email or the password
UpdateUserReceive(p, id) ==
    /\ pc[p] = "idle"
    /\ Goto(p, "update_user", [Local0 EXCEPT !.u = GetUserById(id)])
    /\ UNCHANGED <<dbvars, orders_id_seq, view, wrote, ins>>

\* the rows the statement matches: WHERE id = $6 AND version = $7 (the
\* variant: without version = $7)
UpdateUserRowsAnyVersion(p) == {<<"users", local[p].u.ID>>}
UpdateUserRows(p) ==
    LET k == <<"users", local[p].u.ID>>
    IN IF users[k[2]].version = local[p].u.Version THEN {k} ELSE {}

\* UPDATE users SET name = $1, email = $2, password_hash = $3, is_activated
\* = $4, balance = $5, version = version + 1 ... RETURNING version, one
\* statement on s.db: the balance written is the one of the entity
UpdateUser(p) ==
    /\ pc[p] = "update_user"
    /\ LET id == local[p].u.ID
           K  == UpdateUserRows(p)
       IN /\ ~(\E k \in K : LockedByOther(p, k))
          /\ IF K = {}
             THEN ReturnErr(p, "NoRows") /\ UNCHANGED users
             ELSE /\ users' = [users EXCEPT ![id] =
                                  [balance |-> local[p].u.Balance,
                                   version |-> @.version + 1]]
                  /\ ReturnOk(p, [local[p] EXCEPT !.u.Version = @ + 1])
    /\ UNCHANGED <<products, cart_items, orders, order_items, transations,
                   orders_id_seq, view, wrote, ins>>

\* ----------------------------------------------------------- UpdateProduct
\* updateProductHandler: the request edits the quantity of product x, which
\* the validator wants >= 0
\* (a field of the request is a pointer: {} is nil, {v} points to v; the
\* price of a request and of the entity it becomes is a decimal, held in
\* units of 1/PriceScale of the unit of the stored prices)
UpdateProductReceive(p, x, n, pr) ==
    /\ pc[p] = "idle"
    /\ \A v \in n : v >= 0
    /\ \A v \in pr : v > 0
    /\ Goto(p, "product", [Local0 EXCEPT !.req = [ProductID |-> x, Quantity |-> n,
                                                  Price |-> pr]])
    /\ UNCHANGED <<dbvars, orders_id_seq, view, wrote, ins>>

\* GetProductByID: the committed product row
GetProductByID(x) ==
    [ID |-> x, Price |-> products[x].price, Quantity |-> products[x].quantity,
     Version |-> products[x].version]

\* price decimal(10, 2): the column keeps a fixed number of decimals and
\* rounds what it is given, half away from zero
PriceScale == 10
RoundPrice(v) == (v + PriceScale \div 2) \div PriceScale

\* the value a pointer of the request points to, d if it is nil
Deref(ptr, d) == IF ptr = {} THEN d ELSE CHOOSE v \in ptr : TRUE

\* p, err := app.storage.GetProductByID(id); if req.Price != nil { p.Price =
\* *req.Price }; if req.Quantity != nil { p.Quantity = *req.Quantity }
UpdateProductGetProduct(p) ==
    /\ pc[p] = "product"
    /\ Goto(p, "update_product",
            [local[p] EXCEPT !.req = [GetProductByID(local[p].req.ProductID)
                                        EXCEPT !.Quantity = Deref(local[p].req.Quantity, @),
                                               !.Price = Deref(local[p].req.Price,
                                                               @ * PriceScale)]])
    /\ UNCHANGED <<dbvars, orders_id_seq, view, wrote, ins>>

\* the rows the statement matches: WHERE id = $5 AND version = $6
UpdateProductRows(p) ==
    LET k == <<"products", local[p].req.ID>>
    IN IF products[k[2]].version = local[p].req.Version THEN {k} ELSE {}

\* UPDATE products SET name = $1, description = $2, price = $3, quantity =
\* $4, version = version + 1 ... RETURNING version, one statement on s.db
UpdateProduct(p) ==
    /\ pc[p] = "update_product"
    /\ LET x == local[p].req.ID
           K == UpdateProductRows(p)
       IN /\ ~(\E k \in K : LockedByOther(p, k))
          /\ IF K = {}
             THEN ReturnErr(p, "NoRows") /\ UNCHANGED products
             ELSE /\ products' = [products EXCEPT ![x] =
                                     [price    |-> RoundPrice(local[p].req.Price),
                                      quantity |-> local[p].req.Quantity,
                                      version  |-> @.version + 1]]
                  /\ ReturnOk(p, [local[p] EXCEPT !.req.Version = @ + 1])
    /\ UNCHANGED <<users, cart_items, orders, order_items, transations,
                   orders_id_seq, view, wrote, ins>>

\* ---------------------------------------------------------- UpdateCartItem
\* updateCartItem: the request of user id (read by authenticate) to set the
\* quantity of the cart item of user o over product x (the {id} of the path)
\* to n; v.Check(*req.Quantity > 0, ...)
UpdateCartItemReceive(p, id, o, x, n) ==
    /\ pc[p] = "idle"
    /\ n > 0
    /\ Goto(p, "cart_item", [Local0 EXCEPT !.u = GetUserById(id),
                                            !.req = [UserID |-> o, ProductID |-> x,
                                                     Quantity |-> n]])
    /\ UNCHANGED <<dbvars, orders_id_seq, view, wrote, ins>>

\* item, err := app.storage.GetCartItemById(id): no row is 404, the row of
\* another user is 403; item.Quantity = *req.Quantity
UpdateCartItemGetItem(p) ==
    /\ pc[p] = "cart_item"
    /\ LET r == cart_items[local[p].req.UserID][local[p].req.ProductID]
       IN IF r.quantity = 0
          THEN ReturnErr(p, "NotFound")
          ELSE IF local[p].req.UserID # local[p].u.ID
          THEN ReturnErr(p, "Forbidden")
          ELSE Goto(p, "update_cart_item",
                    [local[p] EXCEPT !.req = [ID        |-> r.id,
                                              UserID    |-> local[p].req.UserID,
                                              ProductID |-> local[p].req.ProductID,
                                              Quantity  |-> local[p].req.Quantity,
                                              Version   |-> r.version]])
    /\ UNCHANGED <<dbvars, orders_id_seq, view, wrote, ins>>

\* the rows the statement matches: WHERE id = $2 AND version = $3 (the
\* variant: without version = $3)
UpdateCartItemRowsAnyVersion(p) ==
    LET k == <<"cart_items", local[p].req.UserID, local[p].req.ProductID>>
        r == cart_items[k[2]][k[3]]
    IN IF r.quantity > 0 /\ r.id = local[p].req.ID THEN {k} ELSE {}
UpdateCartItemRows(p) ==
    LET k == <<"cart_items", local[p].req.UserID, local[p].req.ProductID>>
        r == cart_items[k[2]][k[3]]
    IN IF r.quantity > 0 /\ r.id = local[p].req.ID /\ r.version = local[p].req.Version
       THEN {k} ELSE {}

\* UPDATE cart_items SET quantity = $1, version = version + 1 ... RETURNING
\* version, one statement on s.db
UpdateCartItem(p) ==
    /\ pc[p] = "update_cart_item"
    /\ LET K == UpdateCartItemRows(p)
       IN /\ ~(\E k \in K : LockedByOther(p, k))
          /\ IF K = {}
             THEN ReturnErr(p, "NoRows") /\ UNCHANGED cart_items
             ELSE /\ cart_items' =
                        [cart_items EXCEPT ![local[p].req.UserID][local[p].req.ProductID] =
                            [@ EXCEPT !.quantity = local[p].req.Quantity,
                                      !.version = @ + 1]]
                  /\ ReturnOk(p, [local[p] EXCEPT !.req.Version = @ + 1])
    /\ UNCHANGED <<users, products, orders, order_items, transations,
                   orders_id_seq, view, wrote, ins>>

\* ------------------------------------------------- failures and the return
InFlight == {"checkout", "query1", "query2", "query3", "query4", "query5",
             "query6", "commit",
             "webhook", "wh_user", "wh_checked", "transfer", "transfer1", "transfer2",
             "cancel", "cancel1", "cancel_user", "cancel2", "cancel3", "cancel4",
             "cart", "cart1", "deliver", "update_user", "product", "update_product",
             "cart_item", "update_cart_item"}

\* the rows the next statement of p's transaction has to lock
Target(p) ==
    CASE pc[p] = "query1" -> Query1Rows(p)
      [] pc[p] \in {"query2", "transfer1", "cancel2"} -> Query2Rows(p)
      [] pc[p] = "query5" -> Query5Rows(p)
      [] OTHER -> {}

Waits(p, q) ==
    /\ Outcome(p, Target(p)) = "wait"
    /\ \E k \in Target(p) : k \in wrote[q]

\* the context times out, the connection is lost or the database aborts the
\* transaction: the statement returns an error, the code rolls back (a
\* failed Commit leaves the transaction aborted)
Fail(p) ==
    /\ pc[p] \in InFlight
    /\ Abort(p, "Transient")
    /\ UNCHANGED <<dbvars, orders_id_seq>>

\* two transactions wait for each other's row lock: the database aborts one
Deadlock(p) ==
    /\ \E q \in Procs \ {p} : Waits(p, q) /\ Waits(q, p)
    /\ Abort(p, "Deadlock")
    /\ UNCHANGED <<dbvars, orders_id_seq>>

\* the notifier delivers again: the request slot is free for a new delivery
Return(p) ==
    /\ pc[p] = "done"
    /\ pc'    = [pc EXCEPT ![p] = "idle"]
    /\ err'   = [err EXCEPT ![p] = ""]
    /\ local' = [local EXCEPT ![p] = Local0]
    /\ UNCHANGED <<dbvars, orders_id_seq, view, wrote, ins>>

\* ------------------------------------------------------ the specifications
InitCarts ==
    {[u \in Users |-> [x \in Products |->
         IF c[u][x] = 0 THEN [id |-> 0, quantity |-> 0, version |-> 0]
         ELSE [id |-> 1, quantity |-> c[u][x], version |-> 1]]] :
       c \in {d \in [Users -> [Products -> 0..MaxCartQty]] : d[2][2] = 0}}

InitStock == [Products -> 1..MaxStock]

Init ==
    /\ users = [x \in Users |-> [balance |-> Balance0[x], version |-> 1]]
    /\ products \in {[x \in Products |-> [price |-> Price0[x], quantity |-> q[x],
                                          version |-> 1]] : q \in InitStock}
    /\ cart_items \in InitCarts
    /\ orders = <<>>
    /\ order_items = <<>>
    /\ transations = EmptyBag
    /\ orders_id_seq = 0
    /\ pc = [p \in Procs |-> "idle"]
    /\ local = [p \in Procs |-> Local0]
    /\ view = [p \in Procs |-> Nil]
    /\ wrote = [p \in Procs |-> {}]
    /\ ins = [p \in Procs |-> EmptyBag]
    /\ err = [p \in Procs |-> ""]

Checkout(p) ==
    \/ \E id \in Users : Authenticate(p, id)
    \/ CheckoutQuery0(p)
    \/ CheckoutQuery1(p)
    \/ CheckoutQuery2(p)
    \/ CheckoutQuery3(p)
    \/ CheckoutQuery4(p)
    \/ CheckoutQuery5(p)
    \/ CheckoutQuery6(p)
    \/ CheckoutCommit(p)

Webhook(p, S) ==
    \/ \E s \in S, ev \in Events : WebhookReceive(p, s, ev)
    \/ WebhookGetUser(p)
    \/ WebhookGetTransation(p)
    \/ TransferQuery0(p)
    \/ TransferQuery1(p)
    \/ TransferCommit(p)

Cancel(p) ==
    \/ \E id \in 1..MaxOrderID : CancelReceive(p, id)
    \/ CancelQuery0(p)
    \/ CancelQuery1(p)
    \/ CancelGetUser(p)
    \/ CancelQuery2(p)
    \/ CancelQuery3(p)
    \/ CancelCommit(p)

CartItem(p) ==
    \/ \E id \in Users, x \in Products, n \in 1..MaxCartQty :
            CreateCartItemReceive(p, id, x, n)
    \/ CreateCartItemGetProduct(p)
    \/ CreateCartItem(p)

\* two checkout requests and one delivery of the event of session 1
Next ==
    \/ \E p \in CheckoutProcs : Checkout(p)
    \/ Webhook("w1", {1})
    \/ \E p \in Procs : Fail(p)
    \/ \E p \in Procs : Deadlock(p)

Spec == Init /\ [][Next]_vars

\* deliveries of the payment events, again and again, and a checkout request
NextPay ==
    \/ \E p \in WebhookProcs : Webhook(p, Sessions)
    \/ \E p \in WebhookProcs : Return(p)
    \/ Checkout("c1")
    \/ \E p \in Procs : Fail(p)

\* ... from a state with one cart, of user 1, over product 1
InitPay ==
    /\ Init
    /\ \A x \in Products : products[x].quantity = MaxStock
    /\ \A x \in Products : cart_items[2][x].quantity = 0
    /\ cart_items[1][2].quantity = 0

SpecPay == InitPay /\ [][NextPay]_vars

\* a checkout request, a delivery of the event of session 1 and a request
\* to cancel an order
NextOrder ==
    \/ Checkout("c1")
    \/ Webhook("w1", {1})
    \/ Cancel("k1")
    \/ \E p \in Procs : Fail(p)

SpecOrder == Init /\ [][NextOrder]_vars

\* two checkout requests and a request that puts a product in a cart
NextCart ==
    \/ \E p \in CheckoutProcs : Checkout(p)
    \/ CartItem("a1")
    \/ \E p \in Procs : Fail(p)
    \/ \E p \in Procs : Deadlock(p)

\* ... from a state where the cart of user 2 is empty
InitCart ==
    /\ Init
    /\ \A x \in Products : cart_items[2][x].quantity = 0

SpecCart == InitCart /\ [][NextCart]_vars

\* a checkout request, two requests to cancel an order and a request to
\* deliver one
Deliver(p) ==
    \/ \E id \in 1..MaxOrderID : DeliverReceive(p, id)
    \/ DeliverOrder(p)

NextLife ==
    \/ Checkout("c1")
    \/ \E p \in CancelProcs : Cancel(p)
    \/ Deliver("d1")
    \/ \E p \in Procs : Fail(p)

SpecLife == Init /\ [][NextLife]_vars

Profile(p) ==
    \/ \E id \in Users : UpdateUserReceive(p, id)
    \/ UpdateUser(p)

\* the quantities and the prices a catalog edit may ask for
EditQuantities == {{n} : n \in 0..MaxStock}
EditPrices == {{4}, {10}}

Catalog(p, Q, P) ==
    \/ \E x \in Products, n \in Q, pr \in P : UpdateProductReceive(p, x, n, pr)
    \/ UpdateProductGetProduct(p)
    \/ UpdateProduct(p)

\* every operation that touches a balance: a checkout request, a delivery of
\* the event of session 1, a request to cancel an order, one to deliver it
\* and one that edits a profile
NextAll ==
    \/ Checkout("c1")
    \/ Webhook("w1", {1})
    \/ Cancel("k1")
    \/ Deliver("d1")
    \/ Profile("u1")
    \/ \E p \in Procs : Fail(p)

\* a checkout, a payment, a cancellation, a delivery and catalog edits of
\* quantity and price
NextVersion ==
    \/ Checkout("c1")
    \/ Webhook("w1", {1})
    \/ Cancel("k1")
    \/ Deliver("d1")
    \/ Catalog("e1", {{}, {0}}, EditPrices \cup {{}})
    \/ \E p \in Procs : Fail(p)

\* ... from a state where each user has at most a cart line over product 1
InitAll ==
    /\ Init
    /\ \A x \in Products : products[x].quantity = MaxStock
    /\ cart_items[1][2].quantity = 0

SpecAll == InitAll /\ [][NextAll]_vars

\* two checkout requests and a request that edits the quantity of a product
NextCat ==
    \/ \E p \in CheckoutProcs : Checkout(p)
    \/ Catalog("e1", EditQuantities, {{}})
    \/ \E p \in Procs : Fail(p)
    \/ \E p \in Procs : Deadlock(p)

SpecCat == InitCart /\ [][NextCat]_vars

\* two checkout requests and a request that edits the price of a product
NextShop ==
    \/ \E p \in CheckoutProcs : Checkout(p)
    \/ Catalog("e1", {{}}, EditPrices)
    \/ \E p \in Procs : Fail(p)
    \/ \E p \in Procs : Deadlock(p)

\* ... from a state where every product has MaxStock units
InitShop ==
    /\ Init
    /\ \A x \in Products : products[x].quantity = MaxStock

SpecShop == InitShop /\ [][NextShop]_vars

\* a checkout request, a request to cancel an order and a request that edits
\* the price of a product, its quantity, both or neither
NextPrice ==
    \/ Checkout("c1")
    \/ Cancel("k1")
    \/ Catalog("e1", {{}, {0}}, EditPrices \cup {{}})
    \/ \E p \in Procs : Fail(p)

SpecPrice == InitShop /\ [][NextPrice]_vars

CartEdit(p, U, X) ==
    \/ \E id, o \in U, x \in X, n \in 1..MaxCartQty :
            UpdateCartItemReceive(p, id, o, x, n)
    \/ UpdateCartItemGetItem(p)
    \/ UpdateCartItem(p)

\* requests of each kind that writes under a version guard, about user 1,
\* product 1 and the orders, next to a checkout request
NextGuard ==
    \/ Checkout("c1")
    \/ \E p \in DeliverProcs : Deliver(p)
    \/ UpdateUserReceive("u1", 1) \/ UpdateUser("u1")
    \/ UpdateProductReceive("e1", 1, {0}, {})
    \/ UpdateProductGetProduct("e1") \/ UpdateProduct("e1")
    \/ \E p \in CartEditProcs : CartEdit(p, {1}, {1})
    \/ \E p \in Procs : Fail(p)

\* ... from a state where user 1 has one cart line, over product 1
InitGuard ==
    /\ InitShop
    /\ \A x \in Products : cart_items[2][x].quantity = 0
    /\ cart_items[1][2].quantity = 0
    /\ cart_items[1][1].quantity = 1

SpecGuard == InitGuard /\ [][NextGuard]_vars

SpecVersion == InitGuard /\ [][NextVersion]_vars

\* ---------------------------------------------------- the connection pool
\* db.SetMaxOpenConns(cfg.db.maxOpenConnections): as many connections as
\* there are cancellations at a time
maxOpenConnections == Cardinality(CancelProcs)

\* the connections in use: a transaction keeps its connection from BeginTx
\* to Commit or Rollback (a statement on s.db takes one for the statement,
\* which is one step here: none of these reads waits for a row)
InUse == {p \in Procs : view[p] # Nil}

\* the steps that ask the pool for a connection: the reads of the handlers
\* and of query0 on s.db, BeginTx, and s.GetUserById inside CancelOrder
AcquirePcs == {"idle", "checkout", "cancel", "cancel1", "cancel_user"}

\* database/sql hands out a connection while fewer than the maximum are open
\* and lets the caller wait otherwise
Conn(p) == pc[p] \in AcquirePcs => Cardinality(InUse) < maxOpenConnections

\* two checkouts and the cancellations on the pool, with timeouts
NextPool ==
    \/ \E p \in CheckoutProcs : Conn(p) /\ Checkout(p)
    \/ \E p \in CancelProcs : Conn(p) /\ Cancel(p)
    \/ \E p \in Procs : Fail(p)

\* ... from a state where each user has a cart line of one unit of product 1
InitPool ==
    /\ InitShop
    /\ \A id \in Users : /\ cart_items[id][1].quantity = 1
                         /\ cart_items[id][2].quantity = 0

SpecPool == InitPool /\ [][NextPool]_vars

\* the payment sessions whose events are delivered: two of user 1, one of
\* user 2
EventSessions == {1, 2, 3}

\* deliveries of the events of the sessions, in any order and any number of
\* times, with timeouts
NextEvents ==
    \/ \E p \in WebhookProcs : Webhook(p, EventSessions)
    \/ \E p \in WebhookProcs : Return(p)
    \/ \E p \in Procs : Fail(p)

SpecEvents == InitGuard /\ [][NextEvents]_vars

\* ------------------------------------------------------------- properties
\* the positions of a request inside CheckoutCart
CheckoutPcs == {"checkout", "query1", "query2", "query3", "query4", "query5",
                "query6", "commit"}

\* C1: checkout is all-or-nothing.  Every step of a checkout request other
\* than its successful commit leaves every table exactly as it was, and a
\* step that returns an error leaves no open transaction behind: no write
\* set, no lock, no pending ledger row.
C1_CheckoutAllOrNothing ==
    [][\A p \in CheckoutProcs :
        (/\ <<pc[p], local[p]>> # <<pc'[p], local'[p]>>
         /\ ~(pc[p] = "commit" /\ pc'[p] = "done" /\ err'[p] = "ok"))
        => /\ dbvars' = dbvars
           /\ pc'[p] = "done" => wrote'[p] = {} /\ ins'[p] = EmptyBag /\ view'[p] = Nil]_vars

\* a checkout failed at an interior statement of its transaction while the
\* other one committed an order
C1_Witness ==
    \E p, q \in CheckoutProcs :
        /\ pc[p] = "done" /\ err[p] = "SerializationFailure"
        /\ pc[q] = "done" /\ err[q] = "ok"
        /\ DOMAIN orders = {local[q].orderID}

\* C2: after every successful checkout the stored balance of the user is
\* its value before the commit minus the returned total.
C2_BalanceDebitedByTotal ==
    [][\A p \in CheckoutProcs :
        (pc[p] = "commit" /\ pc'[p] = "done" /\ err'[p] = "ok")
        => users'[local[p].u.ID].balance =
               users[local[p].u.ID].balance - local[p].total]_vars

\* C3: a checkout called with a user entity whose version differs from the
\* stored version of the user does not succeed and changes no table.
C3_StaleUserFails ==
    [][\A p \in CheckoutProcs :
        (/\ pc[p] \in CheckoutPcs /\ pc'[p] = "done"
         /\ local[p].u.Version # users[local[p].u.ID].version)
        => err'[p] # "ok" /\ dbvars' = dbvars]_vars

\* C9: a checkout whose cart has a line that asks for more than the stock of
\* the product returns OutOfStock (or fails before it could read) at the
\* step that reads the cart, and no table changes.
C9_OutOfStockNothingChanges ==
    [][\A p \in CheckoutProcs :
        (/\ pc[p] = "checkout" /\ pc'[p] # "checkout"
         /\ \E x \in Products : cart_items[local[p].u.ID][x].quantity > products[x].quantity)
        => /\ pc'[p] = "done"
           /\ err'[p] \in {"OutOfStock", "Transient"}
           /\ dbvars' = dbvars]_vars

\* a checkout returned OutOfStock for a cart with one line in stock and one
\* line out of stock, and there is no order
C9_Witness ==
    /\ \E p \in CheckoutProcs : pc[p] = "done" /\ err[p] = "OutOfStock"
    /\ \E id \in Users :
          /\ \E x \in Products : cart_items[id][x].quantity > products[x].quantity
          /\ \E y \in Products : /\ 0 < cart_items[id][y].quantity
                                  /\ cart_items[id][y].quantity <= products[y].quantity
    /\ orders = <<>>
    /\ transations = EmptyBag

\* the number of transations rows of the bag b with the signature sig
SignatureCount(b, sig) ==
    BagCardinality([t \in {x \in BagToSet(b) : x.signature = sig} |-> b[t]])

\* the cart of user id asks for product x, which the item it of a committed
\* order also took, and the stock the order read sufficed for either of the
\* two but not for both
StockForExactlyOne(id, it) ==
    LET n == cart_items[id][it.Product.ID].quantity
    IN /\ n > 0
       /\ n <= it.Product.Quantity
       /\ it.Quantity + n > it.Product.Quantity

\* C6: two checkouts of two different users over a product whose stock
\* suffices for exactly one of them never both succeed: once one has
\* committed, the other returns OutOfStock or a conflict (or fails on the
\* way).  And they do not both lose: when no other request runs and one of
\* two checkouts has returned a conflict, the other one, once it has
\* returned, has succeeded unless it failed on the way.
C6_ExactlyOneCheckoutWins ==
    [][\A p, q \in CheckoutProcs :
        /\ (/\ p # q
            /\ pc[q] = "done" /\ err[q] = "ok"
            /\ pc[p] \in CheckoutPcs /\ pc'[p] = "done"
            /\ local[p].u.ID # local[q].u.ID
            /\ \E i \in 1..Len(local[q].items) :
                   StockForExactlyOne(local[p].u.ID, local[q].items[i]))
           => err'[p] \in {"OutOfStock", "SerializationFailure", "Deadlock", "Transient"}
        /\ (/\ p # q
            /\ pc'["w1"] = "idle"
            /\ pc'[p] = "done" /\ pc'[q] = "done"
            /\ err'[q] \in {"SerializationFailure", "Deadlock"})
           => err'[p] \in {"ok", "Transient"}]_vars

\* one user's checkout has committed and the other user's checkout, which
\* read the same stock of the product before that commit, is about to fail
\* on the product row
C6_Witness ==
    \E p, q \in CheckoutProcs :
        /\ pc[q] = "done" /\ err[q] = "ok"
        /\ pc[p] = "query1"
        /\ pc["w1"] = "idle"
        /\ local[p].u.ID # local[q].u.ID
        /\ \E i \in 1..Len(local[q].items) :
               StockForExactlyOne(local[p].u.ID, local[q].items[i])
        /\ Outcome(p, Query1Rows(p)) = "serialization_failure"

\* C7: two concurrent checkout transactions that read the same stock or the
\* same user never both commit: when a checkout commits, every checkout
\* that committed after its snapshot was taken (its order is not in the
\* snapshot) belongs to another user and shares no product with it.
C7_ConcurrentCheckoutsDisjoint ==
    [][\A p, q \in CheckoutProcs :
        (/\ pc[p] = "commit" /\ pc'[p] = "done" /\ err'[p] = "ok"
         /\ pc[q] = "done" /\ err[q] = "ok"
         /\ local[q].orderID \notin DOMAIN view[p].orders)
        => /\ local[p].u.ID # local[q].u.ID
           /\ \A i \in 1..Len(local[p].items), j \in 1..Len(local[q].items) :
                 local[p].items[i].Product.ID # local[q].items[j].Product.ID]_vars

\* two checkouts of the same user read the same cart; one has committed, the
\* other is still in its transaction and holds the snapshot without the
\* order of the first
C7_Witness ==
    \E p, q \in CheckoutProcs :
        /\ pc[q] = "done" /\ err[q] = "ok"
        /\ pc[p] \in {"query1", "query2", "query5"}
        /\ local[p].u.ID = local[q].u.ID
        /\ local[p].items = local[q].items
        /\ local[q].orderID \notin DOMAIN view[p].orders

\* C4: the event of a payment session is credited at most once, whatever
\* the number of deliveries: there is never more than one transations row
\* with its signature, the row appears in exactly the step in which a
\* delivery commits its credit, and that step adds exactly the amount of the
\* session to the balance of the user.
C4_WebhookCreditsOnce ==
    [][\A s \in Sessions :
        LET n == SignatureCount(transations, PaymentSignature(s))
            m == SignatureCount(transations', PaymentSignature(s))
            credits == \E p \in WebhookProcs :
                          /\ pc[p] = "transfer2" /\ pc'[p] = "done" /\ err'[p] = "ok"
                          /\ local[p].sess = s
        IN /\ m <= 1
           /\ m # n => credits
           /\ credits => /\ n = 0 /\ m = 1
                         /\ users'[SessionUser[s]].balance =
                               users[SessionUser[s]].balance + SessionAmount[s]]_vars

\* one delivery of the event has credited the user; another delivery of the
\* same event, which had not found the row, was stopped by the unique
\* signature
C4_Witness ==
    \E s \in Sessions : \E p, q \in WebhookProcs :
        /\ pc[p] = "done" /\ err[p] = "ok" /\ local[p].sess = s /\ local[p].u # Nil
        /\ pc[q] = "done" /\ err[q] = "UniqueViolation"
        /\ SignatureCount(transations, PaymentSignature(s)) = 1
        /\ \A r \in Sessions \ {s} : SignatureCount(transations, PaymentSignature(r)) = 0

C8_InsufficientFundsNothingChanges ==
    [][\A p \in CheckoutProcs :
        (/\ pc[p] = "commit" /\ pc'[p] = "done"
         /\ local[p].total > users[local[p].u.ID].balance)
        => err'[p] # "ok" /\ dbvars' = dbvars]_vars

\* C10: when the order of a successful checkout is cancelled and the user
\* row is still the one the checkout left, the cancel leaves the balance the
\* user had before the checkout.
C10_CancelRestoresBalance ==
    [][\A p \in CheckoutProcs :
        (/\ pc["k1"] = "cancel4" /\ pc'["k1"] = "done" /\ err'["k1"] = "ok"
         /\ pc[p] = "done" /\ err[p] = "ok"
         /\ local[p].orderID = local["k1"].order.ID
         /\ users[local[p].u.ID] = local[p].after)
        => users'[local[p].u.ID].balance = local[p].before.balance]_vars

\* C11: delivered and cancelled are terminal.  No step changes an order
\* that is not in progress, and the statement of a Deliver or of a Cancel
\* that finds its order not in progress returns an error and changes no
\* table, so the status of an order changes at most once.
C11_TerminalStatus ==
    [][/\ \A id \in DOMAIN orders :
             orders[id].status_id # OrderStatusInProgress => orders'[id] = orders[id]
       /\ \A p \in CancelProcs \cup DeliverProcs :
             (/\ pc[p] \in {"cancel1", "deliver"} /\ pc'[p] # pc[p]
              /\ orders[local[p].order.ID].status_id # OrderStatusInProgress)
             => /\ pc'[p] = "done"
                /\ err'[p] \in {"NoRows", "Transient"}
                /\ dbvars' = dbvars]_vars

\* a request to deliver an order, read while it was in progress, found it
\* cancelled and failed; the order is still cancelled
C11_Witness ==
    \E p \in DeliverProcs : \E id \in DOMAIN orders :
        /\ pc[p] = "done" /\ err[p] = "NoRows"
        /\ orders[id].status_id = OrderStatusCancelled
        /\ SignatureCount(transations, CancelSignature(id)) = 1

\* C12: a successful Cancel applies its three effects in one step and
\* nothing else: the order becomes cancelled, the user of the order is
\* credited the sum of the order items, and one transations row with the
\* signature cancel-order-id=<id> and that amount is added.  Every other
\* step of a Cancel changes no table, and one that ends the call returns an
\* error and leaves no open transaction.
C12_CancelAtomic ==
    [][\A p \in CancelProcs :
        <<pc[p], local[p]>> # <<pc'[p], local'[p]>> =>
          IF pc[p] = "cancel4" /\ pc'[p] = "done" /\ err'[p] = "ok"
          THEN LET id     == local[p].order.ID
                   uid    == orders[id].user_id
                   refund == OrderTotal(order_items[id])
               IN /\ orders' = [orders EXCEPT ![id] =
                                  [@ EXCEPT !.status_id = OrderStatusCancelled,
                                            !.version = @ + 1]]
                  /\ users' = [users EXCEPT ![uid] =
                                  [balance |-> @.balance + refund,
                                   version |-> @.version + 1]]
                  /\ transations' = transations (+)
                        SetToBag({[user_id   |-> uid,
                                   signature |-> CancelSignature(id),
                                   amount    |-> refund]})
                  /\ UNCHANGED <<products, cart_items, order_items>>
          ELSE /\ dbvars' = dbvars
               /\ pc'[p] = "done" =>
                     err'[p] # "ok" /\ wrote'[p] = {} /\ ins'[p] = EmptyBag]_vars

\* an order was cancelled after a payment had been credited to its user:
\* the order is cancelled, the ledger holds the refund and the payment
C12_Witness ==
    \E p \in CancelProcs :
        /\ pc[p] = "done" /\ err[p] = "ok"
        /\ orders[local[p].order.ID].status_id = OrderStatusCancelled
        /\ SignatureCount(transations, CancelSignature(local[p].order.ID)) = 1
        /\ SignatureCount(transations, PaymentSignature(1)) = 1
        /\ users[local[p].order.UserID].version = local[p].u.Version

\* C13: for every order the sum of price times quantity over its order
\* items is the negated amount of its checkout transations row, and, when
\* the order is cancelled, the amount of its cancel transations row.
C13_OrderItemsMatchLedger ==
    \A id \in DOMAIN orders :
        /\ id \in DOMAIN order_items
        /\ \E t \in BagToSet(transations) : t.signature = CheckoutSignature(id)
        /\ \A t \in BagToSet(transations) :
              t.signature = CheckoutSignature(id)
              => t.amount = 0 - OrderTotal(order_items[id])
        /\ orders[id].status_id = OrderStatusCancelled
           => /\ \E t \in BagToSet(transations) : t.signature = CancelSignature(id)
              /\ \A t \in BagToSet(transations) :
                    t.signature = CancelSignature(id)
                    => t.amount = OrderTotal(order_items[id])

\* a cancelled order with a line of two units and both of its ledger rows
C13_Witness ==
    \E id \in DOMAIN orders :
        /\ orders[id].status_id = OrderStatusCancelled
        /\ \E i \in 1..Len(order_items[id]) : order_items[id][i].quantity = 2
        /\ SignatureCount(transations, CheckoutSignature(id)) = 1
        /\ SignatureCount(transations, CancelSignature(id)) = 1

\* C14: no two transations rows carry the same signature, and a statement
\* stopped by the unique signature changes no table and ends its
\* transaction.
C14_SignaturesUnique ==
    [][/\ \A t \in BagToSet(transations') :
             SignatureCount(transations', t.signature) = 1
       /\ \A p \in Procs :
             (err'[p] = "UniqueViolation" /\ err[p] # "UniqueViolation")
             => dbvars' = dbvars /\ ins'[p] = EmptyBag /\ wrote'[p] = {}]_vars

\* the events of both sessions have been credited and a further delivery
\* was stopped by the unique signature
C14_Witness ==
    /\ \E p \in WebhookProcs : pc[p] = "done" /\ err[p] = "UniqueViolation"
    /\ \A s \in Sessions : SignatureCount(transations, PaymentSignature(s)) = 1

\* C15: a delivery that fails changes nothing: every step of a delivery
\* other than the successful commit of TransferToUser leaves every table as
\* it was, a failed one leaves no open transaction, and the successful
\* commit adds the transations row of the signature together with the
\* credit.
C15_FailedWebhookLeavesNothing ==
    [][\A p \in WebhookProcs :
        <<pc[p], local[p]>> # <<pc'[p], local'[p]>> =>
          IF pc[p] = "transfer2" /\ pc'[p] = "done" /\ err'[p] = "ok"
          THEN /\ SignatureCount(transations, PaymentSignature(local[p].sess)) = 0
               /\ SignatureCount(transations', PaymentSignature(local[p].sess)) = 1
               /\ users'[local[p].u.ID].balance =
                     users[local[p].u.ID].balance + SessionAmount[local[p].sess]
          ELSE /\ dbvars' = dbvars
               /\ (pc'[p] = "done" /\ err'[p] # "ok")
                  => ins'[p] = EmptyBag /\ wrote'[p] = {} /\ view'[p] = Nil]_vars

\* one delivery lost its database step to a conflict on the user row and
\* left nothing; a delivery of an event has been credited
C15_Witness ==
    \E p, q \in WebhookProcs :
        /\ pc[q] = "done" /\ err[q] \in {"NoRows", "SerializationFailure"}
        /\ pc[p] = "done" /\ err[p] = "ok" /\ local[p].u # Nil
        /\ SignatureCount(transations, PaymentSignature(local[p].sess)) = 1

\* the positions of a delivery between its acceptance and its return
WebhookPcs == {"webhook", "wh_user", "wh_checked", "transfer", "transfer1", "transfer2"}

\* C16: a notification that is not authentic, or that does not carry the
\* purpose tag, is rejected with no side effect: the rejecting step changes
\* no table, and every delivery that goes on to the ledger and the balance
\* holds an authentic notification with the tag.
C16_RejectedWebhookNoEffect ==
    [][\A p \in WebhookProcs :
        /\ (err'[p] = "Rejected" /\ err[p] # "Rejected")
           => /\ pc'[p] = "done"
              /\ dbvars' = dbvars
              /\ wrote'[p] = {} /\ ins'[p] = EmptyBag
        /\ pc'[p] \in WebhookPcs
           => local'[p].event.verified /\ local'[p].event.tag = BalanceTransfer]_vars

\* a notification was rejected and neither a balance nor the ledger changed
C16_Witness ==
    /\ \E p \in WebhookProcs : pc[p] = "done" /\ err[p] = "Rejected"
    /\ transations = EmptyBag
    /\ \A id \in Users : users[id] = [balance |-> Balance0[id], version |-> 1]

\* C17: in every reachable state, under every interleaving of checkout,
\* cancel, deliver, payment and profile requests, the balance of every user,
\* as committed and as any open transaction is about to commit it, is not
\* negative.
C17_BalanceNonNegative ==
    /\ \A id \in Users : users[id].balance >= 0
    /\ \A p \in Procs : view[p] # Nil
          => \A id \in Users : Committed(p).users[id].balance >= 0

\* a checkout spent the whole balance of user 1, a profile edit went through
C17_Witness ==
    /\ users[1].balance = 0
    /\ \E o \in DOMAIN orders : orders[o].user_id = 1
    /\ pc["u1"] = "done" /\ err["u1"] = "ok"

\* C18: in every reachable state, under every interleaving of checkouts and
\* catalog edits of the quantity, the quantity of every product, as committed
\* and as any open transaction is about to commit it, is not negative.
C18_QuantityNonNegative ==
    /\ \A x \in Products : products[x].quantity >= 0
    /\ \A p \in Procs : view[p] # Nil
          => \A x \in Products : Committed(p).products[x].quantity >= 0

\* a checkout took the last units of a product after a catalog edit of it
C18_Witness ==
    /\ pc["e1"] = "done" /\ err["e1"] = "ok"
    /\ \E x \in Products :
          /\ products[x].quantity = 0
          /\ products[x].version = 3
          /\ \E o \in DOMAIN order_items, i \in 1..MaxCartQty :
                /\ i <= Len(order_items[o])
                /\ order_items[o][i].product_id = x

\* C19: a step that makes the balance of a user smaller is the commit of a
\* successful checkout of that user; a delivery, a cancellation, a payment
\* credit, a profile edit and every failed operation leave each balance
\* equal or larger.
C19_OnlyCheckoutDebits ==
    [][\A id \in Users :
         users'[id].balance < users[id].balance
         => \E p \in CheckoutProcs :
               /\ pc[p] = "commit" /\ pc'[p] = "done" /\ err'[p] = "ok"
               /\ local[p].u.ID = id]_vars

\* after a checkout debited user 1, a payment credit, a cancellation and a
\* profile edit all went through, the last against a balance that had moved
C19_Witness ==
    /\ pc["u1"] = "done" /\ err["u1"] = "ok" /\ local["u1"].u.ID = 1
    /\ local["u1"].u.Balance # Balance0[1]
    /\ pc["w1"] = "done" /\ err["w1"] = "ok"
    /\ pc["k1"] = "done" /\ err["k1"] = "ok"
    /\ pc["c1"] = "done" /\ err["c1"] = "ok"

\* the units of product x in the lines a checkout read
LineQuantity(items, x) ==
    SumSeq([i \in 1..Len(items) |->
               IF items[i].Product.ID = x THEN items[i].Quantity ELSE 0])

\* C20: the commit of a successful checkout makes the quantity of every
\* product with a cart line smaller by exactly the quantity of the line and
\* leaves the quantity of every other product as it was.
C20_StockDecreasedByLines ==
    [][\A p \in CheckoutProcs :
         (pc[p] = "commit" /\ pc'[p] = "done" /\ err'[p] = "ok")
         => \A x \in Products :
               products'[x].quantity =
                   products[x].quantity - LineQuantity(local[p].items, x)]_vars

\* a checkout of a cart with one line went through after a catalog edit of
\* the other product
C20_Witness ==
    /\ pc["e1"] = "done" /\ err["e1"] = "ok"
    /\ \E p \in CheckoutProcs :
          /\ pc[p] = "done" /\ err[p] = "ok" /\ Len(local[p].items) = 1
          /\ local["e1"].req.ID # local[p].items[1].Product.ID
          /\ products[local[p].items[1].Product.ID].version = 2

\* the products user id has a cart line for
CartProducts(id) == {x \in Products : cart_items[id][x].quantity > 0}

C22_CheckoutLedgerEntry ==
    [][\A p \in CheckoutProcs :
        (pc[p] = "commit" /\ pc'[p] = "done" /\ err'[p] = "ok")
        => /\ local'[p].orderID \in DOMAIN orders' \ DOMAIN orders
           /\ transations' = transations (+)
                 SetToBag({[user_id   |-> local'[p].u.ID,
                            signature |-> <<"checkout-order_id", local'[p].orderID>>,
                            amount    |-> 0 - local'[p].total]})]_vars

\* a checkout returned a total made of an edited price and its ledger row
\* is there
C22_Witness ==
    \E p \in CheckoutProcs :
        /\ pc[p] = "done" /\ err[p] = "ok"
        /\ \E i \in 1..Len(local[p].items) :
              local[p].items[i].Product.Price # Price0[local[p].items[i].Product.ID]
        /\ \E t \in BagToSet(transations) :
              /\ t.signature = <<"checkout-order_id", local[p].orderID>>
              /\ t.amount = 0 - local[p].total
              /\ t.user_id = local[p].u.ID

\* the positions of a cancellation between its acceptance and its return
CancelPcs == {"cancel", "cancel1", "cancel_user", "cancel2", "cancel3", "cancel4"}

\* C23: no step of a cancellation, its commit included, changes a product:
\* the quantity the checkout of the cancelled order took stays taken.
C23_CancelKeepsStock ==
    [][\A p \in CancelProcs :
        (pc[p] \in CancelPcs /\ pc'[p] # pc[p])
        => /\ \A x \in Products : products'[x].quantity = products[x].quantity
           /\ products' = products
           /\ \A x \in Products : <<"products", x>> \notin wrote'[p]]_vars

\* an order was cancelled and the stock of its product is still what the
\* checkout left
C23_Witness ==
    /\ pc["k1"] = "done" /\ err["k1"] = "ok"
    /\ \E o \in DOMAIN orders :
          /\ orders[o].status_id = OrderStatusCancelled
          /\ \A i \in 1..Len(order_items[o]) :
                products[order_items[o][i].product_id].quantity =
                    MaxStock - order_items[o][i].quantity

\* C24: a delivery that succeeds changes one row, the order's, from in
\* progress to delivered with the version one higher (the completion time is
\* not part of the model), and returns that version; every balance, every
\* product, every cart, every order item and the ledger stay as they were.
C24_DeliverOnlyStatus ==
    [][\A p \in DeliverProcs :
        (pc[p] = "deliver" /\ pc'[p] = "done" /\ err'[p] = "ok")
        => LET id == local[p].order.ID
           IN /\ orders[id].status_id = OrderStatusInProgress
              /\ orders' = [orders EXCEPT ![id] =
                              [user_id   |-> orders[id].user_id,
                               status_id |-> OrderStatusDelivered,
                               version   |-> orders[id].version + 1]]
              /\ local'[p].order.Version = orders'[id].version
              /\ UNCHANGED <<users, products, cart_items, order_items, transations>>]_vars

\* an order was delivered and its user still has the balance the checkout
\* left, with one row in the ledger
C24_Witness ==
    /\ pc["d1"] = "done" /\ err["d1"] = "ok"
    /\ \E o \in DOMAIN orders :
          /\ orders[o].status_id = OrderStatusDelivered
          /\ orders[o].version = 2
          /\ users[orders[o].user_id].balance =
                Balance0[orders[o].user_id] - OrderTotal(order_items[o])
    /\ BagCardinality(transations) = 1

\* the sum of price times quantity over the items of order o
ItemsSum(o) ==
    SumSeq([i \in 1..Len(order_items[o]) |->
               order_items[o][i].price * order_items[o][i].quantity])

\* C25: the refund a cancellation computes, returns and credits is the sum
\* of price times quantity over the items of the order; when that sum is not
\* positive the cancellation ends with InvalidRefund at its first step,
\* before it has a transaction, and no table changes.
C25_InvalidRefundRejected ==
    [][\A p \in CancelProcs :
        /\ (pc[p] = "cancel" /\ pc'[p] # "cancel")
           => IF ItemsSum(local[p].order.ID) <= 0
              THEN /\ pc'[p] = "done"
                   /\ err'[p] \in {"InvalidRefund", "Transient"}
                   /\ dbvars' = dbvars
                   /\ view'[p] = Nil /\ wrote'[p] = {} /\ ins'[p] = EmptyBag
              ELSE pc'[p] = "cancel1"
                   => local'[p].total = ItemsSum(local[p].order.ID)
        /\ (pc[p] = "cancel4" /\ pc'[p] = "done" /\ err'[p] = "ok")
           => /\ local'[p].total = ItemsSum(local[p].order.ID)
              /\ local'[p].total > 0
              /\ users'[local[p].order.UserID].balance =
                    users[local[p].order.UserID].balance + local'[p].total]_vars

\* the cancellation of an order whose only item has the price 0 ended with
\* InvalidRefund: the order is in progress and the ledger has the row of the
\* checkout only
C25_Witness ==
    /\ pc["k1"] = "done" /\ err["k1"] = "InvalidRefund"
    /\ DOMAIN orders = {1}
    /\ orders[1].status_id = OrderStatusInProgress /\ orders[1].version = 1
    /\ ItemsSum(1) = 0
    /\ BagToSet(transations) = {[user_id |-> orders[1].user_id,
                                 signature |-> <<"checkout-order_id", 1>>,
                                 amount |-> 0]}

\* C27: an order item, once committed, never changes, whatever the catalog
\* does to the price or the quantity of its product afterwards; the refund a
\* cancellation credits and returns is the total the checkout of the order
\* wrote to the ledger, not one made of the prices of that moment.
C27_OrderItemsImmutable ==
    [][/\ \A o \in DOMAIN order_items :
            o \in DOMAIN order_items' /\ order_items'[o] = order_items[o]
       /\ \A p \in CancelProcs :
            (pc[p] = "cancel4" /\ pc'[p] = "done" /\ err'[p] = "ok")
            => \E t \in BagToSet(transations) :
                  /\ t.signature = <<"checkout-order_id", local[p].order.ID>>
                  /\ local'[p].total = 0 - t.amount
                  /\ users'[local[p].order.UserID].balance =
                        users[local[p].order.UserID].balance - t.amount]_vars

\* an order was cancelled after the price of one of its products had been
\* edited: the item still has the price of the checkout
C27_Witness ==
    /\ pc["k1"] = "done" /\ err["k1"] = "ok"
    /\ pc["e1"] = "done" /\ err["e1"] = "ok"
    /\ orders[1].status_id = OrderStatusCancelled
    /\ \E i \in 1..Len(order_items[1]) :
          /\ order_items[1][i].product_id = local["e1"].req.ID
          /\ order_items[1][i].price = Price0[local["e1"].req.ID]
          /\ products[local["e1"].req.ID].price # Price0[local["e1"].req.ID]

\* p's statement returned, and not because the database failed
Answered(p, l) == pc[p] = l /\ pc'[p] = "done" /\ err'[p] # "Transient"

\* C26: each of UpdateUser, UpdateProduct, UpdateCartItem and DeliverOrder,
\* called with an entity whose version is not the one stored (or whose row
\* is gone), returns an error and changes no table; called with the stored
\* version (DeliverOrder: of an order in progress) it writes the entity's
\* values to that row and to no other, makes the stored version exactly one
\* higher and returns the new version in the caller's entity.
C26_VersionGuardedUpdate ==
    [][/\ \A p \in UserProcs : Answered(p, "update_user") =>
            LET id == local[p].u.ID
            IN IF users[id].version # local[p].u.Version
               THEN err'[p] = "NoRows" /\ dbvars' = dbvars
               ELSE /\ err'[p] = "ok"
                    /\ users' = [users EXCEPT ![id] =
                                    [balance |-> local[p].u.Balance,
                                     version |-> users[id].version + 1]]
                    /\ local'[p].u.Version = users[id].version + 1
                    /\ UNCHANGED <<products, cart_items, orders, order_items, transations>>
       /\ \A p \in ProductProcs : Answered(p, "update_product") =>
            LET x == local[p].req.ID
            IN IF products[x].version # local[p].req.Version
               THEN err'[p] = "NoRows" /\ dbvars' = dbvars
               ELSE /\ err'[p] = "ok"
                    /\ products' = [products EXCEPT ![x] =
                                       [price    |-> RoundPrice(local[p].req.Price),
                                        quantity |-> local[p].req.Quantity,
                                        version  |-> products[x].version + 1]]
                    /\ local'[p].req.Version = products[x].version + 1
                    /\ UNCHANGED <<users, cart_items, orders, order_items, transations>>
       /\ \A p \in CartEditProcs : Answered(p, "update_cart_item") =>
            LET o == local[p].req.UserID
                x == local[p].req.ProductID
                r == cart_items[o][x]
            IN IF r.quantity = 0 \/ r.id # local[p].req.ID
                  \/ r.version # local[p].req.Version
               THEN err'[p] = "NoRows" /\ dbvars' = dbvars
               ELSE /\ err'[p] = "ok"
                    /\ cart_items' = [cart_items EXCEPT ![o][x] =
                                         [id       |-> r.id,
                                          quantity |-> local[p].req.Quantity,
                                          version  |-> r.version + 1]]
                    /\ local'[p].req.Version = r.version + 1
                    /\ UNCHANGED <<users, products, orders, order_items, transations>>
       /\ \A p \in DeliverProcs : Answered(p, "deliver") =>
            LET id == local[p].order.ID
            IN IF orders[id].version # local[p].order.Version
               THEN err'[p] = "NoRows" /\ dbvars' = dbvars
               ELSE orders[id].status_id = OrderStatusInProgress
                    => /\ err'[p] = "ok"
                       /\ orders'[id].version = orders[id].version + 1
                       /\ local'[p].order.Version = orders[id].version + 1]_vars

\* of two edits of a cart item and of two deliveries of an order the first
\* went through and the second came with the old version; a profile edit
\* came with the version from before the checkout, a catalog edit went
\* through after it
C26_Witness ==
    /\ pc["b1"] = "done" /\ err["b1"] = "ok"
    /\ pc["b2"] = "done" /\ err["b2"] = "NoRows"
    /\ pc["d1"] = "done" /\ err["d1"] = "ok"
    /\ pc["d2"] = "done" /\ err["d2"] = "NoRows"
    /\ pc["u1"] = "done" /\ err["u1"] = "NoRows"
    /\ pc["e1"] = "done" /\ err["e1"] = "ok" /\ local["e1"].req.Version = 3
    /\ users[1].version = 2

\* the requests that run a transaction
TxProcs == CheckoutProcs \cup CancelProcs \cup WebhookProcs

\* C28: when the context of a checkout, a cancellation or a payment transfer
\* ends at any step, the operation returns an error, no table changes and
\* what its transaction had written is dropped; a request that has returned,
\* with or without an error, has no open transaction.
C28_TimeoutRollsBack ==
    [][\A p \in TxProcs :
        /\ (pc[p] \in InFlight /\ pc'[p] = "done" /\ err'[p] = "Transient")
           => dbvars' = dbvars
        /\ pc'[p] \in {"idle", "done"}
           => view'[p] = Nil /\ wrote'[p] = {} /\ ins'[p] = EmptyBag]_vars

\* a checkout failed after it had drawn an order id and a payment transfer
\* failed too: there is no order and no ledger row, the balances are the
\* initial ones and no transaction is open
C28_Witness ==
    /\ pc["c1"] = "done" /\ err["c1"] = "Transient"
    /\ pc["w1"] = "done" /\ err["w1"] = "Transient"
    /\ orders_id_seq = 1 /\ orders = <<>>
    /\ transations = EmptyBag
    /\ \A id \in Users : users[id] = [balance |-> Balance0[id], version |-> 1]
    /\ \A p \in Procs : view[p] = Nil /\ wrote[p] = {}

\* C29: a checkout that finds no cart line of its user ends with EmptyCart
\* at the step that reads the cart (or fails there): no table changes, no
\* order id is drawn and no transaction stays open; and EmptyCart is the
\* answer to such a cart only.
C29_EmptyCartNothingChanges ==
    [][\A p \in CheckoutProcs :
        /\ (/\ pc[p] = "checkout" /\ pc'[p] # "checkout"
            /\ CartProducts(local[p].u.ID) = {})
           => /\ pc'[p] = "done"
              /\ err'[p] \in {"EmptyCart", "Transient"}
              /\ dbvars' = dbvars
              /\ orders_id_seq' = orders_id_seq
              /\ view'[p] = Nil /\ wrote'[p] = {} /\ ins'[p] = EmptyBag
        /\ (err'[p] = "EmptyCart" /\ err[p] # "EmptyCart")
           => pc[p] = "checkout" /\ CartProducts(local[p].u.ID) = {}]_vars

\* a checkout of a user without a cart line ended with EmptyCart: there is
\* no order, no ledger row, and the balances are the initial ones
C29_Witness ==
    /\ \E p \in CheckoutProcs : pc[p] = "done" /\ err[p] = "EmptyCart"
    /\ \E id \in Users : CartProducts(id) = {}
    /\ orders = <<>> /\ order_items = <<>> /\ orders_id_seq = 0
    /\ transations = EmptyBag
    /\ \A id \in Users : users[id] = [balance |-> Balance0[id], version |-> 1]

\* C30: the ledger only grows: every step of a checkout, a delivery, a
\* cancellation, a payment transfer or any other request leaves every row
\* of the ledger in place and as it was.
C30_LedgerAppendOnly ==
    [][/\ transations \sqsubseteq transations'
       /\ \A t \in BagToSet(transations) :
             t \in BagToSet(transations') /\ transations'[t] >= transations[t]]_vars

\* the ledger has the rows of a checkout, of a payment and of the
\* cancellation of the order, in that order or another
C30_Witness ==
    /\ BagCardinality(transations) = 3
    /\ \E t \in BagToSet(transations) : t.signature = <<"checkout-order_id", 1>>
    /\ \E t \in BagToSet(transations) : t.signature = <<"cancel-order-id", 1>>
    /\ \E t \in BagToSet(transations) : t.signature = <<"payment-session-id", 1>>
    /\ pc["d1"] = "done"

\* the sum of the amounts of the ledger rows of a user
RECURSIVE AmountSum(_, _)
AmountSum(b, S) ==
    IF S = {} THEN 0
    ELSE LET t == CHOOSE x \in S : TRUE
         IN t.amount * b[t] + AmountSum(b, S \ {t})

LedgerSum(id) ==
    AmountSum(transations, {t \in BagToSet(transations) : t.user_id = id})

\* C31: the stored balance of every user is the balance the user was created
\* with plus the sum of the amounts of the user's ledger rows, whatever the
\* interleaving of checkouts, cancellations and payment transfers.
C31_BalanceMatchesLedger ==
    \A id \in Users : users[id].balance = Balance0[id] + LedgerSum(id)

\* the cancellations and deliveries of an order that have succeeded
Succeeded(id) ==
    {p \in CancelProcs \cup DeliverProcs :
        pc[p] = "done" /\ err[p] = "ok" /\ local[p].order.ID = id}

\* C32: of the cancellations and deliveries of an order, concurrent or one
\* after the other, at most one succeeds; the order has at most one refund
\* row in the ledger, and the balance of its user is the balance after the
\* checkout, plus the order total once if the order is cancelled.
C32_RefundedAtMostOnce ==
    \A id \in DOMAIN orders :
        /\ Cardinality(Succeeded(id)) <= 1
        /\ SignatureCount(transations, CancelSignature(id)) <= 1
        /\ users[orders[id].user_id].balance =
              Balance0[orders[id].user_id] - ItemsSum(id)
              + (IF orders[id].status_id = OrderStatusCancelled THEN ItemsSum(id) ELSE 0)

\* one cancellation of the order succeeded and was paid back once; the other
\* cancellation and the delivery of the same order were turned down
C32_Witness ==
    /\ pc["k1"] = "done" /\ err["k1"] = "ok"
    /\ pc["k2"] = "done" /\ err["k2"] = "NoRows"
    /\ pc["d1"] = "done" /\ err["d1"] = "NoRows"
    /\ orders[1].status_id = OrderStatusCancelled
    /\ SignatureCount(transations, CancelSignature(1)) = 1
    /\ users[orders[1].user_id].balance = Balance0[orders[1].user_id]

\* C33: every order has exactly one ledger row with the signature
\* checkout-order_id=<id>, and it has a ledger row with the signature
\* cancel-order-id=<id>, exactly one, if and only if its status is
\* cancelled; no order, no such rows.
C33_OrderLedgerEntries ==
    \A id \in 1..MaxOrderID :
        IF id \in DOMAIN orders
        THEN /\ SignatureCount(transations, CheckoutSignature(id)) = 1
             /\ SignatureCount(transations, CancelSignature(id)) =
                   (IF orders[id].status_id = OrderStatusCancelled THEN 1 ELSE 0)
        ELSE /\ SignatureCount(transations, CheckoutSignature(id)) = 0
             /\ SignatureCount(transations, CancelSignature(id)) = 0

\* an order was delivered and its cancellation was turned down: it has its
\* checkout row and no cancellation row, next to a payment row of its user
C33_Witness ==
    /\ pc["d1"] = "done" /\ err["d1"] = "ok"
    /\ pc["k1"] = "done" /\ err["k1"] = "NoRows"
    /\ orders[1].status_id = OrderStatusDelivered
    /\ SignatureCount(transations, CheckoutSignature(1)) = 1
    /\ SignatureCount(transations, CancelSignature(1)) = 0
    /\ SignatureCount(transations, PaymentSignature(1)) = 1

\* a step changes a row only if it makes the version of the row higher
RaisesVersion(r, s) == s.version >= r.version /\ (s # r => s.version > r.version)

\* what a request has read of a row that is stored with the same version is
\* what is stored: the user of a checkout, the products of its cart lines,
\* the order and the user of a cancellation, the order of a delivery
ReadsAgree ==
    /\ \A p \in CheckoutProcs : pc[p] \in CheckoutPcs =>
          /\ local[p].u.Version = users[local[p].u.ID].version
             => local[p].u.Balance = users[local[p].u.ID].balance
          /\ \A i \in 1..Len(local[p].items) :
                LET x == local[p].items[i].Product
                IN x.Version = products[x.ID].version
                   => /\ x.Price = products[x.ID].price
                      /\ x.Quantity = products[x.ID].quantity
    /\ \A p \in CancelProcs :
          /\ pc[p] \in {"cancel", "cancel1"}
             => (local[p].order.Version = orders[local[p].order.ID].version
                 => local[p].order.StatusID = orders[local[p].order.ID].status_id)
          /\ pc[p] = "cancel2"
             => (local[p].u.Version = users[local[p].u.ID].version
                 => local[p].u.Balance = users[local[p].u.ID].balance)
    /\ \A p \in DeliverProcs : pc[p] = "deliver" =>
          (local[p].order.Version = orders[local[p].order.ID].version
           => local[p].order.StatusID = orders[local[p].order.ID].status_id)

\* C34: every committed change of the balance of a user, of the quantity or
\* the price of a product or of the status of an order makes the version of
\* that row higher, and no version ever goes down; so what was read of a
\* row together with a version is what the row holds for as long as it
\* has that version.
C34_VersionsGrow ==
    /\ []ReadsAgree
    /\ [][/\ \A id \in Users : RaisesVersion(users[id], users'[id])
          /\ \A x \in Products : RaisesVersion(products[x], products'[x])
          /\ \A id \in DOMAIN orders : RaisesVersion(orders[id], orders'[id])]_vars

\* the balance was changed by a payment, a checkout and a cancellation, the
\* product by the checkout and a change of its price, the order by the
\* cancellation, each with a step of the version; a delivery came with the
\* version the order had before
C34_Witness ==
    /\ users[1].version = 4 /\ users[1].balance = Balance0[1] + SessionAmount[1]
    /\ products[1].version = 3 /\ products[1].price # Price0[1]
    /\ products[1].quantity = MaxStock - 1
    /\ orders[1].version = 2 /\ orders[1].status_id = OrderStatusCancelled
    /\ pc["d1"] = "done" /\ err["d1"] = "NoRows"

\* CancelOrder is at s.GetUserById with its transaction open and the pool
\* has no connection to give
WaitsForSecondConn(p) ==
    /\ pc[p] = "cancel_user" /\ view[p] # Nil
    /\ Cardinality(InUse) >= maxOpenConnections

\* C35: CancelOrder does not wait for a second connection while it holds the
\* connection of its transaction, so the cancellations that run at a time on
\* a pool of as many connections are never all waiting for one another with
\* nothing but their timeouts to end the wait.
C35_CancelsNeverAllBlocked ==
    ~(\A p \in CancelProcs : WaitsForSecondConn(p))

\* the lines of an order all carry a price greater than zero
PositivePrices(id) ==
    \A i \in 1..Len(order_items[id]) : order_items[id][i].price > 0

\* C36: every order has at least one order item, every item has a quantity
\* greater than zero, and where the prices the checkout copied from the
\* products are greater than zero the total of the items is greater than
\* zero; the cancellation of such an order is not turned down with
\* InvalidRefund.
C36_OrdersRefundable ==
    /\ [](\A id \in DOMAIN orders :
            /\ id \in DOMAIN order_items
            /\ Len(order_items[id]) >= 1
            /\ \A i \in 1..Len(order_items[id]) : order_items[id][i].quantity > 0
            /\ PositivePrices(id) => ItemsSum(id) > 0)
    /\ [][\A p \in CancelProcs :
            (/\ pc[p] = "cancel" /\ pc'[p] # "cancel"
             /\ PositivePrices(local[p].order.ID))
            => err'[p] # "InvalidRefund" /\ err'[p] # "Scan"]_vars

\* an order of two units of a product whose price had been changed to 1 was
\* cancelled: the check of the total let it pass and 2 were paid back
C36_Witness ==
    /\ pc["k1"] = "done" /\ err["k1"] = "ok"
    /\ Len(order_items[1]) = 1
    /\ order_items[1][1].price = 1 /\ order_items[1][1].quantity = 2
    /\ local["k1"].total = 2
    /\ orders[1].status_id = OrderStatusCancelled

\* the sessions whose event has been applied: their ledger row is there
Applied ==
    {s \in EventSessions :
        \E t \in BagToSet(transations) : t.signature = <<"payment-session-id", s>>}

\* the ledger row of a session
PaymentRow(s) ==
    [user_id |-> SessionUser[s], signature |-> <<"payment-session-id", s>>,
     amount |-> SessionAmount[s]]

\* the sum of the amounts of a set of sessions
RECURSIVE PaidIn(_)
PaidIn(S) ==
    IF S = {} THEN 0
    ELSE LET s == CHOOSE x \in S : TRUE IN SessionAmount[s] + PaidIn(S \ {s})

\* C37: the events of different payment sessions, of one user or of two,
\* delivered in any order and any number of times, leave balances and a
\* ledger that depend on the set of events applied only: the ledger holds
\* one row per applied session and each balance is the initial one plus the
\* amounts of the user's applied sessions.
C37_PaymentsCommute ==
    /\ transations = SetToBag({PaymentRow(s) : s \in Applied})
    /\ \A id \in Users :
          users[id].balance =
             Balance0[id] + PaidIn({s \in Applied : SessionUser[s] = id})

\* the events of the three sessions have been applied, the two of user 1
\* after one delivery had lost against the other; a repeated delivery was
\* answered with success
C37_Witness ==
    /\ Applied = EventSessions
    /\ pc["w1"] = "done" /\ err["w1"] = "ok" /\ local["w1"].u = Local0.u
    /\ pc["w2"] = "done" /\ err["w2"] = "NoRows"
    /\ users[1].balance = Balance0[1] + SessionAmount[1] + SessionAmount[3]
    /\ users[2].balance = Balance0[2] + SessionAmount[2]

====
